---- MODULE Spec2Model ----
(***************************************************************************)
(* Model of the hvadvilduhelst dataset loader (load_hygdk_dataset), the    *)
(* probe script's main() and the Hugging Face upload script.               *)
(*                                                                         *)
(* File names and categories are sequences of one-character strings, so    *)
(* that glob matching and Path.stem are computed, not assumed.  A line of  *)
(* a file is a record [raw, obj]: raw is the shape of its text ("blank",   *)
(* "garbage", "array" or "object") and obj is, for an object, the mapping  *)
(* from its keys to its values.  Directory entries are regular, readable,  *)
(* UTF-8 files.                                                            *)
(***************************************************************************)
EXTENDS Integers, Sequences, FiniteSets, TLC

VARIABLES pathKind, dirFiles, environ, pc, calls, heap, log

vars == <<pathKind, dirFiles, environ, pc, calls, heap, log>>

(***************************************************************************)
(* Bounds                                                                  *)
(***************************************************************************)
\* most lines the matching files hold together when the loader is called as
\* a library function
MaxLines == 2
\* the same, when one of the two scripts is run
MaxScriptLines == 1

(***************************************************************************)
(* Strings, paths and file names                                           *)
(***************************************************************************)
\* Python's None: distinct from every string (no string holds this element)
None == <<"<None>">>
EmptyStr == << >>

RelPath == "../data/hygdk"
DefaultPath == "/Users/kasperjunge/gitrepo/datasets/hvadvilduhelst/data/hygdk"
Paths == {RelPath, DefaultPath}
PathKinds == {"absent", "notdir", "dir"}

WorkJsonl == <<"w", "o", "r", "k", ".", "j", "s", "o", "n", "l">>
MadV2Jsonl == <<"m", "a", "d", ".", "v", "2", ".", "j", "s", "o", "n", "l">>
DotJsonl == <<".", "j", "s", "o", "n", "l">>
WorkJson == <<"w", "o", "r", "k", ".", "j", "s", "o", "n">>

\* the names a directory entry can have
FileNames == {WorkJsonl, MadV2Jsonl, DotJsonl, WorkJson}

GlobPattern == <<"*", ".", "j", "s", "o", "n", "l">>

Tail2(s) == SubSeq(s, 2, Len(s))

\* fnmatch of a whole name against a pattern in which "*" matches any run
\* of characters (a leading dot included, as pathlib's glob does)
RECURSIVE FnMatch(_, _)
FnMatch(name, pat) ==
    IF pat = << >> THEN name = << >>
    ELSE IF pat[1] = "*"
         THEN \/ FnMatch(name, Tail2(pat))
              \/ (name # << >> /\ FnMatch(Tail2(name), pat))
         ELSE /\ name # << >>
              /\ name[1] = pat[1]
              /\ FnMatch(Tail2(name), Tail2(pat))

\* str.rfind('.') as a 1-based index, 0 when there is no dot
RFindDot(name) ==
    LET idx == {i \in 1..Len(name) : name[i] = "."}
    IN IF idx = {} THEN 0 ELSE CHOOSE i \in idx : \A j \in idx : j <= i

\* Stem cut at the first dot of the name instead of the last
StemFirstDot(name) ==
    LET idx == {i \in 1..Len(name) : name[i] = "."}
        i == IF idx = {} THEN 0 ELSE CHOOSE k \in idx : \A j \in idx : k <= j
    IN IF 1 < i /\ i < Len(name) THEN SubSeq(name, 1, i - 1) ELSE name

\* PurePath.stem: the name up to its last dot, unless that dot is the first
\* or the last character
Stem(name) ==
    LET i == RFindDot(name)
    IN IF 1 < i /\ i < Len(name) THEN SubSeq(name, 1, i - 1) ELSE name

(***************************************************************************)
(* Lines                                                                   *)
(***************************************************************************)
Keys == {"question", "answer_A", "answer_B"}
NoObj == [k \in {} |-> None]

Line1 == [raw |-> "object",
          obj |-> [k \in Keys |->
                     CASE k = "question" -> <<"q", "1">>
                       [] k = "answer_A" -> <<"a", "1">>
                       [] OTHER -> <<"b", "1">>]]
\* an extra key, and a null answer
Line2 == [raw |-> "object",
          obj |-> [k \in Keys \cup {"source"} |->
                     CASE k = "question" -> <<"q", "2">>
                       [] k = "answer_A" -> <<"a", "2">>
                       [] k = "answer_B" -> None
                       [] OTHER -> <<"w", "e", "b">>]]
Lacking(key) == [raw |-> "object", obj |-> [k \in Keys \ {key} |-> <<"x">>]]
BlankLine == [raw |-> "blank", obj |-> NoObj]
GarbageLine == [raw |-> "garbage", obj |-> NoObj]
ArrayLine == [raw |-> "array", obj |-> NoObj]

Lines == {Line1, Line2, BlankLine, GarbageLine, ArrayLine}
            \cup {Lacking(k) : k \in Keys}

SeqsUpTo(S, n) == UNION {[1..k -> S] : k \in 0..n}

\* name ends with the characters of suf
HasSuffix(name, suf) ==
    /\ Len(name) >= Len(suf)
    /\ SubSeq(name, Len(name) - Len(suf) + 1, Len(name)) = suf

JsonlExt == <<".", "j", "s", "o", "n", "l">>
JsonlNames(names) == {n \in names : HasSuffix(n, JsonlExt)}

\* the ways of filling the files `names` with at most n lines together
RECURSIVE Fillings(_, _)
Fillings(names, n) ==
    IF names = {} THEN {<< >>}
    ELSE LET x == CHOOSE y \in names : TRUE
         IN UNION {UNION {{(x :> s) @@ rest : rest \in Fillings(names \ {x}, n - k)}
                            : s \in [1..k -> Lines]} : k \in 0..n}

\* the directories: some of the names, each with its lines; the files the
\* loader reads hold at most n lines together, any other file holds Line1
Directories(n) ==
    UNION {{f @@ [x \in names \ JsonlNames(names) |-> <<Line1>>]
              : f \in Fillings(JsonlNames(names), n)}
            : names \in SUBSET FileNames}

\* the orders in which a listing can yield the names of S
Orders(S) ==
    {s \in [1..Cardinality(S) -> S] :
        \A i, j \in 1..Cardinality(S) : i # j => s[i] # s[j]}

(***************************************************************************)
(* load_hygdk_dataset                                                      *)
(***************************************************************************)
NoExc == [type |-> "", arg |-> ""]
Exc(t, a) == [type |-> t, arg |-> a]

\* json.loads on one line of text
JsonLoads(line) ==
    IF line.raw \in {"blank", "garbage"}
    THEN [exc |-> Exc("JSONDecodeError", line.raw), isObj |-> FALSE, obj |-> NoObj]
    ELSE [exc |-> NoExc, isObj |-> line.raw = "object", obj |-> line.obj]

\* data[key]
GetItem(data, key) ==
    IF ~data.isObj THEN [exc |-> Exc("TypeError", key), val |-> None]
    ELSE IF key \notin DOMAIN data.obj THEN [exc |-> Exc("KeyError", key), val |-> None]
    ELSE [exc |-> NoExc, val |-> data.obj[key]]

EntryKeys == {"questions", "answer_A", "answer_B", "category"}

\* the dictionary built from one parsed line, or the exception of the first
\* subscript that fails
Entry(data, category) ==
    LET q == GetItem(data, "question")
        a == GetItem(data, "answer_A")
        b == GetItem(data, "answer_B")
    IN IF q.exc # NoExc THEN [exc |-> q.exc, entry |-> << >>]
       ELSE IF a.exc # NoExc THEN [exc |-> a.exc, entry |-> << >>]
       ELSE IF b.exc # NoExc THEN [exc |-> b.exc, entry |-> << >>]
       ELSE [exc |-> NoExc,
             entry |-> [k \in EntryKeys |->
                          CASE k = "questions" -> q.val
                            [] k = "answer_A" -> a.val
                            [] k = "answer_B" -> b.val
                            [] OTHER -> category]]

\* ReadFile with a line that does not parse, or lacks a key, skipped
RECURSIVE ReadFileSkipBad(_, _, _)
ReadFileSkipBad(lines, category, dataset) ==
    IF lines = << >> THEN [exc |-> NoExc, dataset |-> dataset]
    ELSE LET data == JsonLoads(lines[1])
             e == Entry(data, category)
         IN IF data.exc # NoExc \/ e.exc # NoExc
            THEN ReadFileSkipBad(Tail2(lines), category, dataset)
            ELSE ReadFileSkipBad(Tail2(lines), category, Append(dataset, e.entry))

\* the loop over the lines of one open file
RECURSIVE ReadFile(_, _, _)
ReadFile(lines, category, dataset) ==
    IF lines = << >> THEN [exc |-> NoExc, dataset |-> dataset]
    ELSE LET data == JsonLoads(lines[1])
         IN IF data.exc # NoExc THEN [exc |-> data.exc, dataset |-> dataset]
            ELSE LET e == Entry(data, category)
                 IN IF e.exc # NoExc THEN [exc |-> e.exc, dataset |-> dataset]
                    ELSE ReadFile(Tail2(lines), category, Append(dataset, e.entry))

\* ReadFiles with the return statement inside the loop over the files
ReadFilesReturnInLoop(order, files, dataset) ==
    IF order = << >> THEN [exc |-> NoExc, dataset |-> dataset]
    ELSE ReadFile(files[order[1]], Stem(order[1]), dataset)

\* the loop over the files the glob yields, in the order it yields them
RECURSIVE ReadFiles(_, _, _)
ReadFiles(order, files, dataset) ==
    IF order = << >> THEN [exc |-> NoExc, dataset |-> dataset]
    ELSE LET r == ReadFile(files[order[1]], Stem(order[1]), dataset)
         IN IF r.exc # NoExc THEN r
            ELSE ReadFiles(Tail2(order), files, r.dataset)

\* Glob with the pattern "*"
GlobAll(kind, files) ==
    IF kind = "dir" THEN DOMAIN files ELSE {}

\* Path(data_dir).glob("*.jsonl"): the matching entries of a directory, and
\* nothing for a path that is absent or is not a directory
Glob(kind, files) ==
    IF kind = "dir" THEN {n \in DOMAIN files : FnMatch(n, GlobPattern)} ELSE {}

\* one call: what the caller gets.  A raised exception discards the local
\* list; a return hands out the list object allocated at the call
LoadOutcome(path, order, files, id) ==
    LET r == ReadFiles(order, files, << >>)
    IN IF r.exc # NoExc
       THEN [path |-> path, status |-> "raised", exc |-> r.exc, value |-> << >>, id |-> 0]
       ELSE [path |-> path, status |-> "returned", exc |-> NoExc,
             value |-> r.dataset, id |-> id]

(***************************************************************************)
(* upload_to_huggingface and the two scripts                               *)
(***************************************************************************)
\* Python truthiness of an environment value: None and "" are false
Truthy(v) == v # None /\ v # EmptyStr

EnvValues == {None, EmptyStr, <<"s", "e", "t">>}

\* UploadEvents with the repository identifier checked only after the push
UploadEventsLateCheck(dataset, token, repo_id, pushOk) ==
    IF ~Truthy(token) THEN <<"raise ValueError(HUGGINGFACE_TOKEN)">>
    ELSE <<"Dataset.from_list", "push_to_hub">>
           \o (IF ~Truthy(repo_id) THEN <<"raise ValueError(HUGGINGFACE_REPO_ID)">>
               ELSE IF pushOk THEN <<"print uploaded">> ELSE <<"raise HubError">>)

\* upload_to_huggingface(dataset): the events of one call, in order.  The
\* hub can refuse the push, and that exception is not caught.
UploadEvents(dataset, token, repo_id, pushOk) ==
    IF ~Truthy(token) THEN <<"raise ValueError(HUGGINGFACE_TOKEN)">>
    ELSE IF ~Truthy(repo_id) THEN <<"raise ValueError(HUGGINGFACE_REPO_ID)">>
    ELSE <<"Dataset.from_list", "push_to_hub">>
           \o (IF pushOk THEN <<"print uploaded">> ELSE <<"raise HubError">>)

\* the analyses of main(): they take len() of the three text fields of every
\* record, which a None value does not have
AnalysisEvents(dataset) ==
    IF \E i \in 1..Len(dataset) :
          \E k \in {"questions", "answer_A", "answer_B"} : dataset[i][k] = None
    THEN <<"analyze", "raise TypeError">>
    ELSE <<"analyze", "print complete">>

\* main() of the probe script after its load calls: first is the outcome of
\* load("../data/hygdk"), second that of load(), made only when the first
\* raised FileNotFoundError.  Any other exception leaves main uncaught.
MainCalls(first, second) ==
    IF first.status = "raised" /\ first.exc.type = "FileNotFoundError"
    THEN <<first, second>> ELSE <<first>>

MainEvents(first, second) ==
    LET made == MainCalls(first, second)
        last == made[Len(made)]
    IN IF last.status = "raised"
       THEN IF last.exc.type = "FileNotFoundError"
            THEN <<"print could not find dataset files">>
            ELSE <<"raise " \o last.exc.type>>
       ELSE IF Len(last.value) = 0
            THEN <<"print dataset is empty">>
            ELSE <<"print loaded">> \o AnalysisEvents(last.value)

\* the __main__ block of the upload script
UploadMainEvents(loaded, token, repo_id, pushOk) ==
    IF loaded.status = "raised" THEN <<"raise " \o loaded.exc.type>>
    ELSE UploadEvents(loaded.value, token, repo_id, pushOk)

(***************************************************************************)
(* The state machine: one run of one program                               *)
(***************************************************************************)
NoEnv == [token |-> None, repo_id |-> None]

\* a program that calls the loader, twice in a row, on one path
InitLibrary ==
    /\ pc = "library"
    /\ \E k \in PathKinds :
          /\ pathKind = [p \in Paths |-> IF p = RelPath THEN k ELSE "absent"]
          /\ IF k = "dir" THEN dirFiles \in Directories(MaxLines)
             ELSE dirFiles = << >>

\* the probe script, started where either candidate path can be anything
InitProbe ==
    /\ pc = "probe"
    /\ pathKind \in [Paths -> PathKinds]
    /\ IF \E p \in Paths : pathKind[p] = "dir"
       THEN dirFiles \in Directories(MaxScriptLines)
       ELSE dirFiles = << >>

\* the upload script, which reads the default path only
InitUpload ==
    /\ pc = "upload"
    /\ \E k \in PathKinds :
          /\ pathKind = [p \in Paths |-> IF p = DefaultPath THEN k ELSE "absent"]
          /\ IF k = "dir" THEN dirFiles \in Directories(MaxScriptLines)
             ELSE dirFiles = << >>

Init ==
    /\ InitLibrary \/ InitProbe \/ InitUpload
    /\ environ = NoEnv
    /\ calls = << >>
    /\ heap = 0
    /\ log = << >>

\* load_hygdk_dataset(path), called by a program that keeps the result
Load(path, order) ==
    /\ calls' = Append(calls, LoadOutcome(path, order, dirFiles, heap + 1))
    /\ heap' = heap + 1

FirstLoad ==
    /\ pc = "library"
    /\ \E order \in Orders(Glob(pathKind[RelPath], dirFiles)) : Load(RelPath, order)
    /\ pc' = "library_again"
    /\ UNCHANGED <<pathKind, dirFiles, environ, log>>

SecondLoad ==
    /\ pc = "library_again"
    /\ \E order \in Orders(Glob(pathKind[RelPath], dirFiles)) : Load(RelPath, order)
    /\ pc' = "library_done"
    /\ UNCHANGED <<pathKind, dirFiles, environ, log>>

\* main() of scripts/probe_dataset.py
ProbeMain ==
    /\ pc = "probe"
    /\ \E o1 \in Orders(Glob(pathKind[RelPath], dirFiles)),
          o2 \in Orders(Glob(pathKind[DefaultPath], dirFiles)) :
          LET first == LoadOutcome(RelPath, o1, dirFiles, heap + 1)
              second == LoadOutcome(DefaultPath, o2, dirFiles, heap + 2)
          IN /\ calls' = MainCalls(first, second)
             /\ heap' = heap + Len(MainCalls(first, second))
             /\ log' = MainEvents(first, second)
    /\ pc' = "probe_done"
    /\ UNCHANGED <<pathKind, dirFiles, environ>>

\* import of upload_to_huggingface.py: load_dotenv() leaves the process
\* environment with or without the two variables
ImportUpload ==
    /\ pc = "upload"
    /\ \E t \in EnvValues, r \in EnvValues : environ' = [token |-> t, repo_id |-> r]
    /\ pc' = "upload_main"
    /\ UNCHANGED <<pathKind, dirFiles, calls, heap, log>>

\* the __main__ block of upload_to_huggingface.py
UploadMain ==
    /\ pc = "upload_main"
    /\ \E o \in Orders(Glob(pathKind[DefaultPath], dirFiles)), pushOk \in BOOLEAN :
          LET loaded == LoadOutcome(DefaultPath, o, dirFiles, heap + 1)
          IN /\ calls' = <<loaded>>
             /\ heap' = heap + 1
             /\ log' = UploadMainEvents(loaded, environ.token, environ.repo_id, pushOk)
    /\ pc' = "upload_done"
    /\ UNCHANGED <<pathKind, dirFiles, environ>>

Next == FirstLoad \/ SecondLoad \/ ProbeMain \/ ImportUpload \/ UploadMain

Spec == Init /\ [][Next]_vars

(***************************************************************************)
(* Vocabulary of the properties                                            *)
(***************************************************************************)
Range(s) == {s[i] : i \in DOMAIN s}

\* the multiset of the elements of a sequence
BagOf(s) == [x \in Range(s) |-> Cardinality({i \in DOMAIN s : s[i] = x})]

\* a line is well-formed when it is a JSON object holding the three keys
WellFormed(line) == line.raw = "object" /\ Keys \subseteq DOMAIN line.obj

\* the files of the directory a call was given whose names end in .jsonl
TargetFiles(c) ==
    IF pathKind[c.path] = "dir" THEN JsonlNames(DOMAIN dirFiles) ELSE {}

\* the lines of those files, as <<file, line number>>
LinePositions(c) ==
    UNION {{<<f, n>> : n \in DOMAIN dirFiles[f]} : f \in TargetFiles(c)}

LineAt(p) == dirFiles[p[1]][p[2]]

\* cat is the name f without its .jsonl extension; a file named just
\* ".jsonl" has no extension to strip and is named by its whole name
IsCategoryOf(cat, f) ==
    IF f = JsonlExt THEN cat = f ELSE f = cat \o JsonlExt

\* record r, whose question is held under field q, has the values of line
IsFromLine(r, q, line) ==
    /\ WellFormed(line)
    /\ r[q] = line.obj["question"]
    /\ r["answer_A"] = line.obj["answer_A"]
    /\ r["answer_B"] = line.obj["answer_B"]

Returned == {i \in DOMAIN calls : calls[i].status = "returned"}
Raised == {i \in DOMAIN calls : calls[i].status = "raised"}

\* C1: a call on a path that does not exist, or is not a directory, ends in
\* an error signalled to the caller and never returns a sequence.
C1_MissingDirectoryRaises ==
    \A i \in DOMAIN calls :
        pathKind[calls[i].path] # "dir" => calls[i].status = "raised"

\* C2: every returned record has the four fields question, answer_A,
\* answer_B and category, each non-null, the first three holding the values
\* of the same-named keys of a line of a file of the directory.
C2_RecordShape ==
    \A i \in Returned : \A j \in DOMAIN calls[i].value :
        LET r == calls[i].value[j]
        IN /\ {"question", "answer_A", "answer_B", "category"} \subseteq DOMAIN r
           /\ \A k \in {"question", "answer_A", "answer_B", "category"} : r[k] # None
           /\ \E p \in LinePositions(calls[i]) : IsFromLine(r, "question", LineAt(p))

\* C3: the category of every returned record is the base name, extension
\* stripped, of a .jsonl file of the directory that holds the line the record
\* was made from; category is never absent.
C3_CategoryIsBaseName ==
    \A i \in Returned : \A j \in DOMAIN calls[i].value :
        LET r == calls[i].value[j]
        IN /\ "category" \in DOMAIN r
           /\ r["category"] # None
           /\ \E p \in LinePositions(calls[i]) :
                 /\ IsCategoryOf(r["category"], p[1])
                 /\ IsFromLine(r, "questions", LineAt(p))

\* a call returned records of two files, one of them mad.v2.jsonl
C3_Witness ==
    \E i \in Returned : \E j, k \in DOMAIN calls[i].value :
        /\ calls[i].value[j]["category"] = <<"m", "a", "d", ".", "v", "2">>
        /\ calls[i].value[k]["category"] # calls[i].value[j]["category"]

\* C4: when every line of every .jsonl file is well-formed, a call on an
\* existing directory returns one record per line: as many records of a
\* category as its file has lines, and as many in all as the .jsonl files
\* have lines; other files add nothing, and a directory without .jsonl
\* files gives the empty sequence and no error.
C4_CountConservation ==
    \A i \in DOMAIN calls :
        LET c == calls[i]
        IN (/\ pathKind[c.path] = "dir"
            /\ \A p \in LinePositions(c) : WellFormed(LineAt(p)))
           => /\ c.status = "returned"
              /\ Len(c.value) = Cardinality(LinePositions(c))
              /\ \A f \in TargetFiles(c) :
                    Cardinality({j \in DOMAIN c.value :
                                    IsCategoryOf(c.value[j]["category"], f)})
                       = Len(dirFiles[f])

\* a call read two .jsonl files that hold lines, next to a file with
\* another extension
C4_Witness ==
    \E i \in Returned :
        /\ WorkJson \in DOMAIN dirFiles
        /\ \E f, g \in TargetFiles(calls[i]) :
              f # g /\ Len(dirFiles[f]) > 0 /\ Len(dirFiles[g]) > 0
        /\ Len(calls[i].value) = Cardinality(LinePositions(calls[i]))

\* C5: a call on an existing directory is all or nothing: if any line of any
\* .jsonl file does not parse or lacks one of the three keys, the call
\* raises and returns no records; otherwise it returns a record for every
\* line of the directory.
C5_AllOrNothing ==
    \A i \in DOMAIN calls :
        LET c == calls[i]
        IN pathKind[c.path] = "dir" =>
             IF \E p \in LinePositions(c) : ~WellFormed(LineAt(p))
             THEN /\ c.status = "raised"
                  /\ c.exc.type \in {"JSONDecodeError", "KeyError", "TypeError"}
                  /\ c.value = << >>
             ELSE /\ c.status = "returned"
                  /\ Len(c.value) = Cardinality(LinePositions(c))

\* a call raised on the second line of a file whose first line is good
C5_Witness ==
    \E i \in Raised : \E f \in TargetFiles(calls[i]) :
        /\ Len(dirFiles[f]) >= 2
        /\ WellFormed(dirFiles[f][1])
        /\ ~WellFormed(dirFiles[f][2])

\* C6: the upload converts the dataset and pushes to the hub only with both
\* HUGGINGFACE_TOKEN and HUGGINGFACE_REPO_ID present and non-empty; with
\* either missing or empty it raises the configuration error first.
C6_ConfigCheckedFirst ==
    /\ (\E n \in DOMAIN log : log[n] \in {"Dataset.from_list", "push_to_hub"})
          => Truthy(environ.token) /\ Truthy(environ.repo_id)
    /\ (/\ pc = "upload_done"
        /\ calls[1].status = "returned"
        /\ ~(Truthy(environ.token) /\ Truthy(environ.repo_id)))
          => /\ Len(log) = 1
             /\ log[1] \in {"raise ValueError(HUGGINGFACE_TOKEN)",
                            "raise ValueError(HUGGINGFACE_REPO_ID)"}

\* the upload ran with a token and an empty repository identifier
C6_Witness ==
    /\ pc = "upload_done"
    /\ Truthy(environ.token)
    /\ environ.repo_id = EmptyStr
    /\ calls[1].status = "returned"
    /\ Len(calls[1].value) > 0
    /\ log = <<"raise ValueError(HUGGINGFACE_REPO_ID)">>

\* C7: in both scripts, when the loader gave zero records, no analysis and
\* no conversion or push runs before the empty dataset has been reported.
C7_EmptyReportedFirst ==
    (/\ pc \in {"probe_done", "upload_done"}
     /\ calls[Len(calls)].status = "returned"
     /\ Len(calls[Len(calls)].value) = 0)
    => \A n \in DOMAIN log :
          log[n] \in {"analyze", "Dataset.from_list", "push_to_hub"}
             => \E m \in 1..(n - 1) : log[m] = "print dataset is empty"

SameBags(a, b) == BagOf(a.value) = BagOf(b.value) /\ a.id # b.id

\* C8: two successive calls on an unmodified directory end alike whatever
\* the order of the listing: both fail in the same way, or both return
\* equal multisets of records, in two different list objects.
C8_SameOutcome ==
    pc = "library_done" =>
        LET a == calls[1]
            b == calls[2]
        IN /\ a.status = b.status
           /\ a.status = "raised" => a.exc = b.exc
           /\ a.status = "returned" => SameBags(a, b)

\* the .jsonl files that hold a line that is not well-formed
MalformedFiles(c) ==
    {f \in TargetFiles(c) : \E n \in DOMAIN dirFiles[f] : ~WellFormed(dirFiles[f][n])}

\* C8, amended: two successive calls on an unmodified directory both fail
\* or both return equal multisets of records, in two different list
\* objects, whatever the order of the listing; two failures are the same
\* exception when a single file holds the malformed lines.
C8_SameOutcomeAmended ==
    pc = "library_done" =>
        LET a == calls[1]
            b == calls[2]
        IN /\ a.status = b.status
           /\ (a.status = "raised" /\ Cardinality(MalformedFiles(a)) <= 1)
                 => a.exc = b.exc
           /\ a.status = "returned" => SameBags(a, b)

\* two calls returned the same records in two different orders
C8_Witness ==
    /\ pc = "library_done"
    /\ calls[1].status = "returned"
    /\ calls[2].status = "returned"
    /\ calls[1].value # calls[2].value

\* C9: main() tries "../data/hygdk" first; when that directory is absent it
\* calls the loader again with the default path; the first candidate that
\* succeeds supplies the dataset; 'Could not find dataset files' is printed,
\* and nothing analysed, exactly when both candidates are absent.
C9_FallbackOrder ==
    pc = "probe_done" =>
        /\ calls[1].path = RelPath
        /\ pathKind[RelPath] = "dir" => Len(calls) = 1
        /\ pathKind[RelPath] = "absent" =>
              Len(calls) = 2 /\ calls[2].path = DefaultPath
        /\ (\A p \in Paths : pathKind[p] = "absent")
              <=> log = <<"print could not find dataset files">>

\* the number of lines of the .jsonl files that are not blank
NonBlank(c) == {p \in LinePositions(c) : LineAt(p).raw # "blank"}

\* C10: a call on a directory whose .jsonl files hold only well-formed and
\* blank lines completes without error and returns one record per line that
\* is not blank.
C10_BlankLinesSkipped ==
    \A i \in DOMAIN calls :
        LET c == calls[i]
        IN (/\ pathKind[c.path] = "dir"
            /\ \A p \in NonBlank(c) : WellFormed(LineAt(p)))
           => /\ c.status = "returned"
              /\ Len(c.value) = Cardinality(NonBlank(c))

====
